---- MODULE Spec2Model ----
(***************************************************************************)
(* Natural-language-to-SQL bot: the /ai/query pipeline, the schema cache   *)
(* and the standalone schema refresh scripts, in each variant kept in the  *)
(* repository.                                                             *)
(*                                                                         *)
(*   Final  src/server.js 1-122       schemaCache loaded at startup        *)
(*   Chart  src/server.js 124-241     schema.json text, chart rendering    *)
(*   Cache  src/unnamed/part_001      cachedSchema, /ai/refresh, 24 h TTL  *)
(*   File   src/unnamed/part_002 1-105    schema.json, run_sql             *)
(*   Fixed  src/unnamed/part_002 107-205  schema.json, fixed PO_Pending    *)
(*   ScriptRpc    src/refreshSchema.js    exported refreshSchema()         *)
(*   ScriptFetch  src/unnamed/part_000    refreshSchema() run as a script  *)
(*                                                                         *)
(* JavaScript runs a handler without interruption up to its next await, so *)
(* every action below is one such segment of a handler: the code from one  *)
(* await (or the arrival of the request) to the next one or to the         *)
(* response.  Texts are sequences of characters.                           *)
(***************************************************************************)
EXTENDS Integers, Sequences, FiniteSets, TLC

VARIABLES
    variant,          \* which program of the repository is running
    listening,        \* app.listen() has been reached
    cachedSchema,     \* the process-wide schema snapshot
    lastRefreshedAt,  \* publish time of cachedSchema (hours), NoTime when null
    now,              \* the clock, in hours
    vercel,           \* process.env.VERCEL is set
    req,              \* the POST /ai/query requests being served, by name
    refresh,          \* the GET /ai/refresh request in flight
    script            \* a run of the standalone refresh script

vars == <<variant, listening, cachedSchema, lastRefreshedAt, now, vercel,
          req, refresh, script>>

(***************************************************************************)
(* Bounds of the model.                                                    *)
(***************************************************************************)
MaxRows == 21
MaxTime == 48

(***************************************************************************)
(* Program constants.                                                      *)
(***************************************************************************)
TableCap == 20
TTL_HOURS == 24
FixedLimit == 10
NoTime == -1

ServerVariants == {"Final", "Chart", "Cache", "File", "Fixed"}
ScriptVariants == {"ScriptRpc", "ScriptFetch"}
Variants == ServerVariants \cup ScriptVariants

\* The POST /ai/query requests followed.  Requests share nothing but the
\* snapshot, which GET /ai/refresh writes concurrently with them.
Reqs == {"r1"}

(***************************************************************************)
(* Texts.                                                                  *)
(***************************************************************************)
\* The backquote character (a string holding it cannot be written in TLA+).
BQ == "<backquote>"
Fence == <<BQ, BQ, BQ>>
FenceSql == <<BQ, BQ, BQ, "s", "q", "l">>
Select == <<"s", "e", "l", "e", "c", "t">>

\* The characters String.prototype.trim() removes and the regex class \s matches.
WhiteSpace == {" ", "\n", "\t", "\r"}

UpperCase == <<"A", "B", "C", "D", "E", "F", "G", "H", "I", "J", "K", "L", "M",
               "N", "O", "P", "Q", "R", "S", "T", "U", "V", "W", "X", "Y", "Z">>
LowerCase == <<"a", "b", "c", "d", "e", "f", "g", "h", "i", "j", "k", "l", "m",
               "n", "o", "p", "q", "r", "s", "t", "u", "v", "w", "x", "y", "z">>

ToLowerChar(c) ==
    IF \E i \in 1..26 : UpperCase[i] = c
    THEN LowerCase[CHOOSE i \in 1..26 : UpperCase[i] = c]
    ELSE c

\* String.prototype.toLowerCase()
toLowerCase(s) == [i \in 1..Len(s) |-> ToLowerChar(s[i])]

\* String.prototype.startsWith(p)
startsWith(s, p) ==
    /\ Len(p) <= Len(s)
    /\ \A k \in 1..Len(p) : s[k] = p[k]

\* p occurs in s at position i
MatchesAt(s, p, i) ==
    /\ i + Len(p) - 1 <= Len(s)
    /\ \A k \in 1..Len(p) : s[i + k - 1] = p[k]

\* p occurs somewhere in s
Contains(s, p) == \E i \in 1..Len(s) : MatchesAt(s, p, i)

\* String.prototype.replace(/p1|p2|.../g, ""): one left-to-right pass; at each
\* position the first alternative that matches is removed and the scan goes on
\* after it; pats is the sequence of alternatives in the order written.
RECURSIVE RemoveFrom(_, _, _)
RemoveFrom(s, pats, i) ==
    IF i > Len(s) THEN <<>>
    ELSE IF \E m \in 1..Len(pats) : MatchesAt(s, pats[m], i)
         THEN LET hit == {m \in 1..Len(pats) : MatchesAt(s, pats[m], i)}
                  m == CHOOSE x \in hit : \A y \in hit : x <= y
              IN  RemoveFrom(s, pats, i + Len(pats[m]))
         ELSE <<s[i]>> \o RemoveFrom(s, pats, i + 1)

replace(s, pats) == RemoveFrom(s, pats, 1)

RECURSIVE TrimLeft(_)
TrimLeft(s) ==
    IF s # <<>> /\ Head(s) \in WhiteSpace THEN TrimLeft(Tail(s)) ELSE s

RECURSIVE TrimRight(_)
TrimRight(s) ==
    IF s # <<>> /\ s[Len(s)] \in WhiteSpace
    THEN TrimRight(SubSeq(s, 1, Len(s) - 1))
    ELSE s

\* String.prototype.trim()
trim(s) == TrimRight(TrimLeft(s))

(***************************************************************************)
(* The cleanup of the generated text, per variant.                         *)
(***************************************************************************)
\* server.js 92-93: content.trim(), then replace(/```sql|```/g, "").trim()
CleanFinal(content) == trim(replace(trim(content), <<FenceSql, Fence>>))

\* server.js 199: content.trim() only
CleanChart(content) == trim(content)

\* part_001 173-175: content.replace(/```sql|```/g, "").trim()
CleanCache(content) == trim(replace(content, <<FenceSql, Fence>>))

\* part_002 66-67 and 168-169: trim, replace(/```sql/g), replace(/```/g), trim
generateSQLClean(content) ==
    trim(replace(replace(trim(content), <<FenceSql>>), <<Fence>>))

Cleanup(v, content) ==
    CASE v = "Final" -> CleanFinal(content)
      [] v = "Chart" -> CleanChart(content)
      [] v = "Cache" -> CleanCache(content)
      [] OTHER       -> generateSQLClean(content)

(***************************************************************************)
(* The SELECT-only check, per variant.                                     *)
(***************************************************************************)
\* server.js 95: /^select/i.test(cleaned)
\* server.js 202 and part_001 177: sql.toLowerCase().startsWith("select")
StartsWithSelect(sql) == startsWith(toLowerCase(sql), Select)

\* part_002 81 and 183: /^SELECT\s+/i.test(sql)
StartsWithSelectSpace(sql) ==
    /\ startsWith(toLowerCase(sql), Select)
    /\ Len(sql) > Len(Select)
    /\ sql[Len(Select) + 1] \in WhiteSpace

\* The check without its anchor: "select" anywhere in the text.
IsSelectUnanchored(v, sql) == Contains(toLowerCase(sql), Select)

IsSelect(v, sql) ==
    IF v \in {"File", "Fixed"} THEN StartsWithSelectSpace(sql)
    ELSE StartsWithSelect(sql)

(***************************************************************************)
(* Values exchanged with the collaborators.                                *)
(***************************************************************************)
\* Listings the catalog source can return: (table_name, column_name, data_type).
CatalogA ==
    <<[table_name |-> "PO_Pending", column_name |-> "Qty", data_type |-> "numeric"]>>
CatalogB ==
    CatalogA \o
    <<[table_name |-> "Checklist", column_name |-> "Task", data_type |-> "text"]>>
Catalogs == {CatalogA, CatalogB}

\* supabase.rpc / .from() / fetch() answer {data, error}: data is null on error.
FetchOutcomes ==
    {[kind |-> "ok", data |-> c] : c \in Catalogs}
        \cup {[kind |-> "error", data |-> <<>>]}

\* The schema snapshot as the process holds it.
NullSchema == [kind |-> "null", data |-> <<>>]
EmptyText == [kind |-> "text", data |-> <<>>]
SchemaNotFound == [kind |-> "notfound", data |-> <<>>]
DataSchema(data) == [kind |-> "data", data |-> data]
FileText(data) == [kind |-> "file", data |-> data]

\* server.js 30-34: one "table(column:type)" entry per column, joined by ", "
SchemaText(data) ==
    [kind |-> "text",
     data |-> [i \in 1..Len(data) |->
                 <<data[i].table_name, "(", data[i].column_name, ":",
                   data[i].data_type, ")">>]]

\* Request bodies: question absent, empty, or a question.
Absent == "<undefined>"
Questions == {Absent, "", "show pending purchase orders"}

\* Texts the generation call can return: a statement, bare or wrapped in
\* code fences, with or without trailing semicolons and surrounding blanks.
Checklist ==
    <<"S", "E", "L", "E", "C", "T", " ", "*", " ", "F", "R", "O", "M", " ",
      "\"", "C", "h", "e", "c", "k", "l", "i", "s", "t", "\"">>
Bodies ==
    { Checklist,
      <<"s", "e", "l", "e", "c", "t", "\n", "1">>,
      <<"S", "E", "L", "E", "C", "T">>,
      <<"s", "e", "l", "e", "c", "t", "i", "o", "n">>,
      <<"D", "R", "O", "P", " ", "T", "A", "B", "L", "E", " ", "S", "o", "u", "d", "a">> }
Prefixes == { <<>>, <<" ">>, FenceSql \o <<"\n">>, Fence \o <<"\n">> }
Suffixes == { <<>>, <<";">>, <<"\n">> \o Fence, <<";", "\n">> \o Fence }
RawTexts == { p \o b \o x : p \in Prefixes, b \in Bodies, x \in Suffixes }

\* openai.chat.completions.create: resolves with a text or rejects.
GenOutcomes ==
    {[kind |-> "ok", content |-> t] : t \in RawTexts}
        \cup {[kind |-> "failed", content |-> <<>>]}

\* Rows are numbered in the order the executor returns them.
Rows(n) == [i \in 1..n |-> i]
RowCounts == {0, 1, TableCap, MaxRows}

\* The executor answers {data, error}: rows, or an error, or neither.
NoRows == [kind |-> "none", rows |-> <<>>]
ExecError == [kind |-> "error", rows |-> <<>>]
ExecNull == [kind |-> "null", rows |-> <<>>]
ExecRows(n) == [kind |-> "rows", rows |-> Rows(n)]

\* part_002 187: .from("PO_Pending").select("*").limit(10) returns at most 10 rows
ExecOutcomes(v) ==
    {ExecError, ExecNull} \cup
    {ExecRows(n) : n \in IF v = "Fixed" THEN {k \in RowCounts \cup {FixedLimit} : k <= FixedLimit}
                          ELSE RowCounts}

\* The execution call a variant issues for the validated text.
ExecCall(v, sql) ==
    CASE v = "Final" -> [via |-> "rpc run_sql", text |-> sql]
      [] v = "Chart" -> [via |-> "rpc exec_sql", text |-> sql]
      [] v = "Cache" -> [via |-> "rpc run_sql", text |-> sql]
      [] v = "File"  -> [via |-> "rpc run_sql", text |-> sql]
      [] OTHER       -> [via |-> "from PO_Pending", text |-> <<>>]

(***************************************************************************)
(* Responses of POST /ai/query.  A field the JSON body does not carry is   *)
(* "absent"; a field sent as JSON null is "null".                          *)
(***************************************************************************)
NoTable == [kind |-> "absent", rows |-> <<>>]
NullTable == [kind |-> "null", rows |-> <<>>]
TableOf(rows) == [kind |-> "rows", rows |-> rows]

NoResp ==
    [status |-> 0, error |-> FALSE, table |-> NoTable, sql |-> <<>>,
     summary |-> -1, chart |-> "absent"]

\* res.status(code).json({ error: ... })
ErrorResp(code) ==
    [status |-> code, error |-> TRUE, table |-> NoTable, sql |-> <<>>,
     summary |-> -1, chart |-> "absent"]

\* res.json({ summary, sql, table [, chart] })
OkResp(count, sql, table, chart) ==
    [status |-> 200, error |-> FALSE, table |-> table, sql |-> sql,
     summary |-> count, chart |-> chart]

(***************************************************************************)
(* POST /ai/query, segment by segment.  Each operator gives the request's  *)
(* record after the segment.                                               *)
(***************************************************************************)
\* The directives a prompt template can carry.
Directives ==
    {"select-only", "no-invention", "quote-identifiers", "bounded-results"}

\* The directives each template holds:
\*   server.js 44, 45, 65, 66 and 160, 161, 181, 182; part_002 38, 39, 51, 52:
\*     quote names with uppercase letters or underscores, only SELECT, do not
\*     invent tables or columns, WHERE / LIMIT for pending, latest, summary;
\*   part_001 127, 128: never invent names, include WHERE / LIMIT / ORDER BY
\*     (114 asks for quotes around names with a space or a reserved keyword);
\*   part_002 142, 143: quote names, only SELECT.
PromptDirectives(v) ==
    CASE v = "Cache" -> {"no-invention", "bounded-results"}
      [] v = "Fixed" -> {"quote-identifiers", "select-only"}
      [] OTHER       -> Directives

\* The table names the template spells out (server.js 48-57, 164-173;
\* part_001 91, 92, 102, 119; part_002 41-50, 145-154).
PromptTables(v) ==
    IF v = "Cache" THEN {"PO_Pending", "Checklist", "Delegation", "Souda"}
    ELSE {"PO_Pending", "Purchase_Receipt", "Checklist", "Delegation",
          "Store_OUT", "Store_IN", "Souda", "INVOICE", "Active_Employee_Details"}

NoPrompt ==
    [directives |-> {}, tables |-> {}, schema |-> NullSchema, question |-> Absent]

\* server.js 39-75 buildPrompt, 156-189 systemPrompt; part_001 59-165 prompt;
\* part_002 34-59, 138-161 prompt: the template with the snapshot as read at
\* this moment and the question.
buildPrompt(v, question, schema) ==
    [directives |-> PromptDirectives(v), tables |-> PromptTables(v),
     schema |-> schema, question |-> question]

IdleReq ==
    [pc |-> "idle", question |-> Absent, fetch |-> "none", gen |-> "none",
     prompt |-> NoPrompt, raw |-> <<>>, sql |-> <<>>, execd |-> <<>>,
     rows |-> NoRows, chartRun |-> "none", resp |-> NoResp]

\* The check left out.
MissingQuestionUnchecked(q) == FALSE

\* `!question`
MissingQuestion(q) == q \in {Absent, ""}

\* server.js 81, 153 and part_002 75, 177: return res.status(400);
\* part_001 45: throw, answered by the catch with 500
MissingQuestionStatus(v) == IF v = "Cache" THEN 500 ELSE 400

\* part_002 82, 184: return res.status(400); elsewhere: throw, answered with 500
UnsafeQueryStatus(v) == IF v \in {"File", "Fixed"} THEN 400 ELSE 500

\* part_001 48-51
needsRefreshAtLimit(schema, last, t) ==
    \/ schema.kind = "null"
    \/ (last # NoTime /\ t - last >= TTL_HOURS)

needsRefresh(schema, last, t) ==
    \/ schema.kind = "null"
    \/ (last # NoTime /\ t - last > TTL_HOURS)

\* From the arrival of the request to its first await (or its response).
\* `schema` is the snapshot the process holds at this moment.
Arrived(v, rq, q, stale, schema) ==
    IF MissingQuestion(q)
    THEN [rq EXCEPT !.pc = "done", !.question = q,
                    !.resp = ErrorResp(MissingQuestionStatus(v))]
    ELSE IF v = "Cache" /\ stale
    THEN [rq EXCEPT !.pc = "fetch", !.question = q, !.fetch = "pending"]
    ELSE [rq EXCEPT !.pc = "gen", !.question = q, !.gen = "pending",
                    !.prompt = buildPrompt(v, q, schema)]

\* part_001 54-55: const { data } = await supabase.rpc("get_schema");
\*                 cachedSchema = data;
PublishedByQuery(schema, outcome) ==
    IF outcome.kind = "ok" THEN DataSchema(outcome.data) ELSE NullSchema

\* part_001 54-165: from the catalog's answer to the generation call;
\* `schema` is the snapshot just assigned (read at part_001 59).
Fetched(rq, outcome, schema) ==
    [rq EXCEPT !.pc = "gen",
               !.fetch = IF outcome.kind = "ok" THEN "ok" ELSE "failed",
               !.gen = "pending",
               !.prompt = buildPrompt("Cache", rq.question, schema)]

\* A rejected generation call caught, logged and passed over: the handler
\* goes on to the execution call with the text it holds.
GeneratedIgnoringFailure(v, rq, outcome) ==
    IF outcome.kind = "failed"
    THEN [rq EXCEPT !.pc = "exec", !.gen = "failed",
                    !.execd = Append(@, ExecCall(v, rq.sql))]
    ELSE LET sql == Cleanup(v, outcome.content)
         IN  IF ~IsSelect(v, sql)
             THEN [rq EXCEPT !.pc = "done", !.gen = "ok",
                             !.raw = outcome.content, !.sql = sql,
                             !.resp = ErrorResp(UnsafeQueryStatus(v))]
             ELSE [rq EXCEPT !.pc = "exec", !.gen = "ok",
                             !.raw = outcome.content, !.sql = sql,
                             !.execd = Append(@, ExecCall(v, sql))]

\* From the generation call's answer to the execution call (or the response).
Generated(v, rq, outcome) ==
    IF outcome.kind = "failed"
    THEN [rq EXCEPT !.pc = "done", !.gen = "failed", !.resp = ErrorResp(500)]
    ELSE LET sql == Cleanup(v, outcome.content)
         IN  IF ~IsSelect(v, sql)
             THEN [rq EXCEPT !.pc = "done", !.gen = "ok",
                             !.raw = outcome.content, !.sql = sql,
                             !.resp = ErrorResp(UnsafeQueryStatus(v))]
             ELSE [rq EXCEPT !.pc = "exec", !.gen = "ok",
                             !.raw = outcome.content, !.sql = sql,
                             !.execd = Append(@, ExecCall(v, sql))]

Min(a, b) == IF a <= b THEN a ELSE b

\* Array.prototype.slice(0, end)
slice(rows, end) == SubSeq(rows, 1, Min(end, Len(rows)))

\* The body of the success response, per variant; `data` is rows or null.
\* server.js 102-106: rows?.length || 0, rows?.slice(0, 20) || []
ShapeFinal(sql, data) ==
    IF data.kind = "null" THEN OkResp(0, sql, TableOf(<<>>), "absent")
    ELSE OkResp(Len(data.rows), sql, TableOf(slice(data.rows, TableCap)), "absent")

\* part_001 184-188 and part_002 191-195: data.length throws on null
ShapeCache(sql, data) ==
    IF data.kind = "null" THEN ErrorResp(500)
    ELSE OkResp(Len(data.rows), sql, TableOf(data.rows), "absent")

\* part_002 90-94: data?.length || 0, table: data
ShapeFile(sql, data) ==
    IF data.kind = "null" THEN OkResp(0, sql, NullTable, "absent")
    ELSE OkResp(Len(data.rows), sql, TableOf(data.rows), "absent")

\* server.js 230-231: data?.length || 0, table: data, chart: chartBase64
ShapeChart(sql, data, chart) ==
    IF data.kind = "null" THEN OkResp(0, sql, NullTable, chart)
    ELSE OkResp(Len(data.rows), sql, TableOf(data.rows), chart)

\* From the executor's answer to the response (or to the chart's first await).
Executed(v, rq, outcome, onVercel) ==
    IF outcome.kind = "error"
    THEN [rq EXCEPT !.pc = "done", !.rows = outcome, !.resp = ErrorResp(500)]
    ELSE CASE v = "Final" ->
                [rq EXCEPT !.pc = "done", !.rows = outcome,
                           !.resp = ShapeFinal(rq.sql, outcome)]
           [] v \in {"Cache", "Fixed"} ->
                [rq EXCEPT !.pc = "done", !.rows = outcome,
                           !.resp = ShapeCache(rq.sql, outcome)]
           [] v = "File" ->
                [rq EXCEPT !.pc = "done", !.rows = outcome,
                           !.resp = ShapeFile(rq.sql, outcome)]
           [] OTHER ->
                IF onVercel
                THEN [rq EXCEPT !.pc = "done", !.rows = outcome,
                                !.resp = ShapeChart(rq.sql, outcome, "null")]
                ELSE [rq EXCEPT !.pc = "chartImport", !.rows = outcome]

\* server.js 213-221: after import("chartjs-node-canvas"); data.map throws
\* on null, and the inner catch leaves chartBase64 null.
ChartImported(rq, ok) ==
    IF ok /\ rq.rows.kind = "rows"
    THEN [rq EXCEPT !.pc = "chartRender"]
    ELSE [rq EXCEPT !.pc = "done", !.chartRun = "failed",
                    !.resp = ShapeChart(rq.sql, rq.rows, "null")]

\* A handler whose chart block has no catch of its own: a failed render
\* reaches the outer catch (server.js 232-235).
ChartRenderedUncaught(rq, ok) ==
    IF ok
    THEN [rq EXCEPT !.pc = "done", !.chartRun = "ok",
                    !.resp = ShapeChart(rq.sql, rq.rows, "base64")]
    ELSE [rq EXCEPT !.pc = "done", !.chartRun = "failed", !.resp = ErrorResp(500)]

\* server.js 215-231: after renderToBuffer
ChartRendered(rq, ok) ==
    [rq EXCEPT !.pc = "done",
               !.chartRun = IF ok THEN "ok" ELSE "failed",
               !.resp = ShapeChart(rq.sql, rq.rows, IF ok THEN "base64" ELSE "null")]

(***************************************************************************)
(* GET /ai/refresh (part_001 23-39) and the refresh scripts.               *)
(***************************************************************************)
NoRefreshResp == [status |-> 0, success |-> "absent", error |-> FALSE, columns |-> -1]
IdleRefresh == [pc |-> "idle", fetch |-> "none", resp |-> NoRefreshResp]

\* A refresh that appends to the array the process holds instead of replacing it.
PublishedInPlace(schema, outcome) ==
    IF outcome.kind = "ok" /\ schema.kind = "data"
    THEN DataSchema(schema.data \o outcome.data)
    ELSE IF outcome.kind = "ok" THEN DataSchema(outcome.data) ELSE schema

\* part_001 26-29: if (error) throw error; cachedSchema = data
PublishedByRefresh(schema, outcome) ==
    IF outcome.kind = "ok" THEN DataSchema(outcome.data) ELSE schema

\* part_001 32 and 35-37
RefreshResp(outcome) ==
    IF outcome.kind = "ok"
    THEN [status |-> 200, success |-> "true", error |-> FALSE,
          columns |-> Len(outcome.data)]
    ELSE [status |-> 500, success |-> "absent", error |-> TRUE, columns |-> -1]

IdleScript ==
    [pc |-> "idle", fetch |-> "none", result |-> "none", file |-> NullSchema]

\* refreshSchema.js 13-18: if (error) throw error; write schema.json; return
\* part_000 17-36: a failure is caught and logged; the promise resolves
ScriptDone(v, sc, outcome) ==
    IF outcome.kind = "ok"
    THEN [sc EXCEPT !.pc = "done", !.fetch = "ok", !.result = "resolved",
                    !.file = DataSchema(outcome.data)]
    ELSE [sc EXCEPT !.pc = "done", !.fetch = "failed",
                    !.result = IF v = "ScriptRpc" THEN "rejected" ELSE "resolved"]

(***************************************************************************)
(* The state machine.                                                      *)
(***************************************************************************)
\* The snapshot a process holds when its module has been loaded.
InitialSchemas(v) ==
    CASE v = "Final" -> {EmptyText}
      [] v = "Chart" -> {SchemaNotFound} \cup {FileText(c) : c \in Catalogs}
      [] v \in {"File", "Fixed"} -> {DataSchema(c) : c \in Catalogs}
      [] OTHER -> {NullSchema}

Init ==
    /\ variant \in Variants
    /\ listening = CASE variant = "Final" -> "starting"
                     [] variant \in ScriptVariants -> "none"
                     [] OTHER -> "listening"
    /\ cachedSchema \in InitialSchemas(variant)
    /\ lastRefreshedAt = NoTime
    /\ now = 0
    /\ vercel \in (IF variant = "Chart" THEN BOOLEAN ELSE {FALSE})
    /\ req = [r \in Reqs |-> IdleReq]
    /\ refresh = IdleRefresh
    /\ script = IdleScript

\* server.js 24-36, 120-122: refreshSchema().then(() => app.listen(...)); a
\* failed fetch throws and the server never listens.
Startup ==
    /\ variant = "Final"
    /\ listening = "starting"
    /\ \E outcome \in FetchOutcomes :
         IF outcome.kind = "ok"
         THEN /\ cachedSchema' = SchemaText(outcome.data)
              /\ listening' = "listening"
         ELSE /\ listening' = "crashed"
              /\ UNCHANGED cachedSchema
    /\ UNCHANGED <<variant, lastRefreshedAt, now, vercel, req, refresh, script>>

\* Date.now() advances (read by part_001 51 only).
Tick ==
    /\ variant = "Cache"
    /\ now + TTL_HOURS <= MaxTime
    /\ now' = now + TTL_HOURS
    /\ UNCHANGED <<variant, listening, cachedSchema, lastRefreshedAt, vercel,
                   req, refresh, script>>

QueryArrive(r) ==
    /\ listening = "listening"
    /\ req[r].pc = "idle"
    /\ \E q \in Questions :
         req' = [req EXCEPT ![r] =
                   Arrived(variant, req[r], q,
                           needsRefresh(cachedSchema, lastRefreshedAt, now),
                           cachedSchema)]
    /\ UNCHANGED <<variant, listening, cachedSchema, lastRefreshedAt, now,
                   vercel, refresh, script>>

QueryFetchReturn(r) ==
    /\ req[r].pc = "fetch"
    /\ \E outcome \in FetchOutcomes :
         /\ cachedSchema' = PublishedByQuery(cachedSchema, outcome)
         /\ req' = [req EXCEPT ![r] = Fetched(req[r], outcome, cachedSchema')]
    /\ lastRefreshedAt' = now
    /\ UNCHANGED <<variant, listening, now, vercel, refresh, script>>

QueryGenReturn(r) ==
    /\ req[r].pc = "gen"
    /\ \E outcome \in GenOutcomes :
         req' = [req EXCEPT ![r] = Generated(variant, req[r], outcome)]
    /\ UNCHANGED <<variant, listening, cachedSchema, lastRefreshedAt, now,
                   vercel, refresh, script>>

QueryExecReturn(r) ==
    /\ req[r].pc = "exec"
    /\ \E outcome \in ExecOutcomes(variant) :
         req' = [req EXCEPT ![r] = Executed(variant, req[r], outcome, vercel)]
    /\ UNCHANGED <<variant, listening, cachedSchema, lastRefreshedAt, now,
                   vercel, refresh, script>>

ChartImportReturn(r) ==
    /\ req[r].pc = "chartImport"
    /\ \E ok \in BOOLEAN :
         req' = [req EXCEPT ![r] = ChartImported(req[r], ok)]
    /\ UNCHANGED <<variant, listening, cachedSchema, lastRefreshedAt, now,
                   vercel, refresh, script>>

ChartRenderReturn(r) ==
    /\ req[r].pc = "chartRender"
    /\ \E ok \in BOOLEAN :
         req' = [req EXCEPT ![r] = ChartRendered(req[r], ok)]
    /\ UNCHANGED <<variant, listening, cachedSchema, lastRefreshedAt, now,
                   vercel, refresh, script>>

\* The response has been sent; the slot serves the next request.
QueryEnd(r) ==
    /\ req[r].pc = "done"
    /\ req' = [req EXCEPT ![r] = IdleReq]
    /\ UNCHANGED <<variant, listening, cachedSchema, lastRefreshedAt, now,
                   vercel, refresh, script>>

RefreshArrive ==
    /\ variant = "Cache"
    /\ listening = "listening"
    /\ refresh.pc = "idle"
    /\ refresh' = [refresh EXCEPT !.pc = "fetch", !.fetch = "pending"]
    /\ UNCHANGED <<variant, listening, cachedSchema, lastRefreshedAt, now,
                   vercel, req, script>>

RefreshFetchReturn ==
    /\ refresh.pc = "fetch"
    /\ \E outcome \in FetchOutcomes :
         /\ cachedSchema' = PublishedByRefresh(cachedSchema, outcome)
         /\ lastRefreshedAt' = IF outcome.kind = "ok" THEN now ELSE lastRefreshedAt
         /\ refresh' = [pc |-> "done",
                        fetch |-> IF outcome.kind = "ok" THEN "ok" ELSE "failed",
                        resp |-> RefreshResp(outcome)]
    /\ UNCHANGED <<variant, listening, now, vercel, req, script>>

RefreshEnd ==
    /\ refresh.pc = "done"
    /\ refresh' = IdleRefresh
    /\ UNCHANGED <<variant, listening, cachedSchema, lastRefreshedAt, now,
                   vercel, req, script>>

ScriptStart ==
    /\ variant \in ScriptVariants
    /\ script.pc = "idle"
    /\ script' = [script EXCEPT !.pc = "fetch", !.fetch = "pending",
                                !.result = "none"]
    /\ UNCHANGED <<variant, listening, cachedSchema, lastRefreshedAt, now,
                   vercel, req, refresh>>

ScriptFetchReturn ==
    /\ script.pc = "fetch"
    /\ \E outcome \in FetchOutcomes :
         script' = ScriptDone(variant, script, outcome)
    /\ UNCHANGED <<variant, listening, cachedSchema, lastRefreshedAt, now,
                   vercel, req, refresh>>

\* The script is run again.
ScriptEnd ==
    /\ script.pc = "done"
    /\ script' = [script EXCEPT !.pc = "idle"]
    /\ UNCHANGED <<variant, listening, cachedSchema, lastRefreshedAt, now,
                   vercel, req, refresh>>

Next ==
    \/ Startup
    \/ Tick
    \/ \E r \in Reqs : QueryArrive(r)
    \/ \E r \in Reqs : QueryFetchReturn(r)
    \/ \E r \in Reqs : QueryGenReturn(r)
    \/ \E r \in Reqs : QueryExecReturn(r)
    \/ \E r \in Reqs : ChartImportReturn(r)
    \/ \E r \in Reqs : ChartRenderReturn(r)
    \/ \E r \in Reqs : QueryEnd(r)
    \/ RefreshArrive
    \/ RefreshFetchReturn
    \/ RefreshEnd
    \/ ScriptStart
    \/ ScriptFetchReturn
    \/ ScriptEnd

Spec == Init /\ [][Next]_vars

TypeOK ==
    /\ variant \in Variants
    /\ listening \in {"none", "starting", "listening", "crashed"}
    /\ cachedSchema.kind \in {"null", "text", "notfound", "data", "file"}
    /\ lastRefreshedAt \in {NoTime} \cup 0..MaxTime
    /\ now \in 0..MaxTime
    /\ vercel \in BOOLEAN
    /\ \A r \in Reqs :
         /\ req[r].pc \in {"idle", "fetch", "gen", "exec", "chartImport",
                           "chartRender", "done"}
         /\ req[r].question \in Questions
         /\ Len(req[r].execd) <= 1
         /\ req[r].resp.status \in {0, 200, 400, 500}
    /\ refresh.pc \in {"idle", "fetch", "done"}
    /\ script.pc \in {"idle", "fetch", "done"}

(***************************************************************************)
(* Properties.                                                             *)
(***************************************************************************)
\* The request has been answered with an error body and nothing else.
ErrorOnly(rq) ==
    /\ rq.pc = "done"
    /\ rq.resp.error
    /\ rq.resp.status >= 400
    /\ rq.resp.table.kind = "absent"

BeginsWithSelect(t) == startsWith(toLowerCase(t), Select)

\* C1: the executor is never called with a generated text that does not begin
\* with "select" (in any letter case), as sent and after fences and blanks are
\* stripped from it; a request whose cleaned text does not begin with "select"
\* ends in an error response with no execution call issued.
C1_OnlySelectReachesExecutor ==
    \A r \in Reqs :
        /\ \A i \in 1..Len(req[r].execd) :
             req[r].execd[i].via # "from PO_Pending"
                => /\ BeginsWithSelect(req[r].execd[i].text)
                   /\ BeginsWithSelect(CleanFinal(req[r].execd[i].text))
        /\ (req[r].gen = "ok" /\ ~BeginsWithSelect(req[r].sql))
                => /\ req[r].execd = <<>>
                   /\ req[r].rows = NoRows
                   /\ ErrorOnly(req[r])

DropSouda ==
    <<"D", "R", "O", "P", " ", "T", "A", "B", "L", "E", " ", "S", "o", "u", "d", "a", ";">>

\* C1 witness: a fenced DROP TABLE was generated, cleaned and refused.
C1_Witness ==
    \E r \in Reqs :
        /\ req[r].gen = "ok"
        /\ req[r].sql = DropSouda
        /\ req[r].pc = "done"
        /\ req[r].resp.error
        /\ req[r].execd = <<>>

\* C2 (as claimed): a catalog fetch that fails, in GET /ai/refresh or in the
\* automatic refresh of POST /ai/query, leaves the published snapshot as it was.
C2_FailedFetchKeepsSnapshot ==
    [][ ( \/ refresh.pc = "fetch" /\ refresh'.fetch = "failed"
          \/ \E r \in Reqs : req[r].pc = "fetch" /\ req'[r].fetch = "failed" )
        => cachedSchema' = cachedSchema ]_vars

\* C3 (as claimed): every failed catalog fetch is reported to the caller that
\* triggered it: GET /ai/refresh answers with a failure, a query whose
\* automatic refresh failed answers with an error instead of going on, and the
\* refresh script's run fails.
C3_FailedFetchReported ==
    /\ (refresh.pc = "done" /\ refresh.fetch = "failed")
            => (refresh.resp.success # "true" /\ refresh.resp.status >= 400)
    /\ \A r \in Reqs : req[r].fetch = "failed" => ErrorOnly(req[r])
    /\ (script.pc = "done" /\ script.fetch = "failed")
            => script.result = "rejected"

\* C4 (as claimed): a request without a question is answered with a 4xx status
\* and an error body, in every variant.
C4_MissingQuestionIsClientError ==
    \A r \in Reqs :
        (req[r].pc = "done" /\ req[r].question \in {Absent, ""})
            => /\ req[r].resp.status \in 400..499
               /\ req[r].resp.error

\* C5: a request without a question issues no catalog fetch, no generation call
\* and no execution call before its error response.
C5_MissingQuestionNoCalls ==
    \A r \in Reqs :
        (req[r].pc # "idle" /\ req[r].question \in {Absent, ""})
            => /\ req[r].fetch = "none"
               /\ req[r].gen = "none"
               /\ req[r].execd = <<>>
               /\ req[r].rows = NoRows
               /\ ErrorOnly(req[r])

\* C5 witness: a request without a question was refused while the cache was
\* empty (a request with a question would have fetched the catalog).
C5_Witness ==
    \E r \in Reqs :
        /\ variant = "Cache"
        /\ cachedSchema = NullSchema
        /\ req[r].question = Absent
        /\ req[r].pc = "done"
        /\ req[r].resp.error

\* C6 (as claimed): the table of a success response holds at most TableCap
\* rows, the first rows of the executor's result in order.
C6_TableWithinCap ==
    \A r \in Reqs :
        (req[r].pc = "done" /\ ~req[r].resp.error /\ req[r].rows.kind = "rows")
            => /\ req[r].resp.table.kind = "rows"
               /\ Len(req[r].resp.table.rows) <= TableCap
               /\ Len(req[r].resp.table.rows) <= Len(req[r].rows.rows)
               /\ req[r].resp.table.rows =
                     SubSeq(req[r].rows.rows, 1, Len(req[r].resp.table.rows))

\* C7 (as claimed): every response is a success carrying a table of rows and no
\* error, or a failure carrying an error and nothing else.
C7_TableOrErrorOnly ==
    \A r \in Reqs :
        req[r].pc = "done"
            => \/ ErrorOnly(req[r])
               \/ /\ ~req[r].resp.error
                  /\ req[r].resp.table.kind = "rows"

\* C8: when the generation call fails the request ends in an error response
\* and no execution call is issued for it.
C8_GenerationFailureNoExecution ==
    \A r \in Reqs :
        req[r].gen = "failed"
            => /\ req[r].execd = <<>>
               /\ req[r].rows = NoRows
               /\ ErrorOnly(req[r])

\* C8 witness: a request whose generation call failed has been answered.
C8_Witness ==
    \E r \in Reqs :
        /\ req[r].gen = "failed"
        /\ req[r].pc = "done"
        /\ req[r].resp.status = 500
        /\ ~MissingQuestion(req[r].question)

EndsWithTerminator(t) == t # <<>> /\ t[Len(t)] = ";"

ChecklistSemi == Checklist \o <<";">>

\* C9 (as claimed): for a generated text wrapped in code fences or ending with
\* semicolons, the cleaned text holds no fence marker and does not end with a
\* statement terminator; SELECT * FROM "Checklist"; is cleaned to
\* SELECT * FROM "Checklist".
C9_CleanedHasNoFenceNoTerminator ==
    \A r \in Reqs :
        /\ ( /\ req[r].gen = "ok"
             /\ Contains(req[r].raw, Fence) \/ EndsWithTerminator(trim(req[r].raw)) )
                => /\ ~Contains(req[r].sql, Fence)
                   /\ ~EndsWithTerminator(req[r].sql)
        /\ (req[r].gen = "ok" /\ req[r].raw = ChecklistSemi)
                => req[r].sql = Checklist

\* The text up to its first blank.
RECURSIVE FirstToken(_)
FirstToken(t) ==
    IF t = <<>> \/ Head(t) \in WhiteSpace THEN <<>>
    ELSE <<Head(t)>> \o FirstToken(Tail(t))

RECURSIVE StripTerminators(_)
StripTerminators(t) ==
    IF EndsWithTerminator(t)
    THEN StripTerminators(TrimRight(SubSeq(t, 1, Len(t) - 1)))
    ELSE t

\* The cleaned form of a generated text: fences stripped, blanks trimmed,
\* trailing statement terminators stripped.
CleanedForm(raw) == StripTerminators(trim(replace(raw, <<FenceSql, Fence>>)))

\* C10 (as claimed): a generated text is accepted (sent on to execution)
\* exactly when the first token of its cleaned form is "select" in any letter
\* case.
C10_AcceptedIffFirstTokenSelect ==
    \A r \in Reqs :
        req[r].gen = "ok"
            => ( req[r].execd # <<>>
                    <=> toLowerCase(FirstToken(CleanedForm(req[r].raw))) = Select )

\* The values a snapshot variable can hold as a whole: the value the module
\* starts with, or one catalog answer as assigned by a refresh.
WholeSnapshots(v) ==
    InitialSchemas(v) \cup {NullSchema}
        \cup {DataSchema(c) : c \in Catalogs} \cup {SchemaText(c) : c \in Catalogs}

\* The request has assembled its prompt.
PromptAssembled(rq) ==
    \/ rq.pc \in {"gen", "exec", "chartImport", "chartRender"}
    \/ rq.pc = "done" /\ rq.gen # "none"

\* C11: under any interleaving of refreshes with in-flight requests, a request
\* builds its prompt from one snapshot value that was assigned as a whole (the
\* one before or the one after a concurrent refresh, never a mix), reads it at
\* prompt assembly, and keeps that prompt for the rest of the request whatever
\* is published meanwhile.
C11_PromptFromOneWholeSnapshot ==
    [][\A r \in Reqs :
         /\ PromptAssembled(req'[r])
              => req'[r].prompt.schema \in WholeSnapshots(variant)
         /\ (~PromptAssembled(req[r]) /\ PromptAssembled(req'[r]))
              => req'[r].prompt.schema = cachedSchema'
         /\ (PromptAssembled(req[r]) /\ req'[r].pc # "idle")
              => req'[r].prompt = req[r].prompt]_vars

\* A refresh has published another snapshot while the request, whose prompt
\* holds the earlier one, is waiting for the executor.
C11_Witness ==
    \E r \in Reqs :
        /\ req[r].pc = "exec"
        /\ refresh.pc = "done" /\ refresh.fetch = "ok"
        /\ req[r].prompt.schema.kind = "data"
        /\ cachedSchema.kind = "data"
        /\ cachedSchema # req[r].prompt.schema

\* C12: every assembled prompt, in every server variant and for every
\* question, holds the four directives (only SELECT, no invented names, quoted
\* identifiers, bounded results), the PO_Pending mapping and a snapshot.
C12_PromptHasAllDirectives ==
    \A r \in Reqs :
        PromptAssembled(req[r])
            => /\ Directives \subseteq req[r].prompt.directives
               /\ "PO_Pending" \in req[r].prompt.tables
               /\ req[r].prompt.schema \in WholeSnapshots(variant)

\* C13: when the chart cannot be produced after a successful execution, the
\* request is still answered 200 with the summary, the sql and the executor's
\* table, with chart null and no error body.
C13_ChartFailureStillSucceeds ==
    \A r \in Reqs :
        (req[r].pc = "done" /\ req[r].chartRun = "failed")
            => /\ req[r].resp.status = 200
               /\ ~req[r].resp.error
               /\ req[r].resp.chart = "null"
               /\ req[r].resp.sql = req[r].sql
               /\ req[r].resp.summary >= 0
               /\ req[r].resp.table.kind # "absent"
               /\ req[r].rows.kind = "rows"
                    => /\ req[r].resp.table = TableOf(req[r].rows.rows)
                       /\ req[r].resp.summary = Len(req[r].rows.rows)

\* The renderer failed on a non-empty result and the request was answered 200.
C13_Witness ==
    \E r \in Reqs :
        /\ variant = "Chart" /\ ~vercel
        /\ req[r].pc = "done"
        /\ req[r].chartRun = "failed"
        /\ req[r].rows.kind = "rows" /\ Len(req[r].rows.rows) > 0
        /\ req[r].resp.status = 200

\* C14: in the caching server a request with a question that finds the cache
\* empty, or published more than TTL_HOURS ago, issues a catalog fetch and
\* publishes its answer (with the time) before its prompt is assembled from
\* it; a request that finds a snapshot no older than TTL_HOURS goes straight
\* to generation without a fetch, and no step of a request other than the
\* return of its own fetch changes the cache or its timestamp.
C14_FetchIffEmptyOrExpired ==
    [][variant = "Cache" =>
        \A r \in Reqs :
          /\ (req[r].pc = "idle" /\ req'[r].pc \in {"fetch", "gen"})
               => IF \/ cachedSchema.kind = "null"
                     \/ (lastRefreshedAt # NoTime
                            /\ now - lastRefreshedAt > TTL_HOURS)
                  THEN /\ req'[r].pc = "fetch"
                       /\ req'[r].fetch = "pending"
                       /\ req'[r].prompt = NoPrompt
                  ELSE /\ req'[r].pc = "gen"
                       /\ req'[r].fetch = "none"
          /\ (req[r].pc = "fetch" /\ req'[r] # req[r])
               => /\ req'[r].pc = "gen"
                  /\ lastRefreshedAt' = now
                  /\ req'[r].prompt.schema = cachedSchema'
          /\ (req[r].pc # "fetch" /\ req'[r] # req[r])
               => /\ UNCHANGED <<cachedSchema, lastRefreshedAt>>
                  /\ req[r].pc # "idle" /\ req'[r].pc # "idle"
                       => req'[r].fetch = req[r].fetch]_vars

\* A request found a non-empty snapshot older than TTL_HOURS and is waiting
\* for the catalog.
C14_Witness ==
    \E r \in Reqs :
        /\ variant = "Cache"
        /\ req[r].pc = "fetch"
        /\ cachedSchema.kind = "data"
        /\ lastRefreshedAt # NoTime
        /\ now - lastRefreshedAt > TTL_HOURS

\* C15: in every successful response the table comes from executing exactly
\* the text returned in the response's sql field, the only text the request
\* sent to the executor.
C15_TableIsResultOfReturnedSql ==
    \A r \in Reqs :
        (req[r].pc = "done" /\ req[r].resp.status = 200)
            => /\ Len(req[r].execd) = 1
               /\ req[r].execd[1].via # "from PO_Pending"
               /\ req[r].execd[1].text = req[r].resp.sql

====
